---- MODULE Spec2Model ----
(***************************************************************************)
(* A model of openapi/schemas.py: the Schema object (its parse pass       *)
(* _parse_data, the memoised get_type, and model) and the Model object    *)
(* (its constructor, which materialises input data against a Schema).     *)
(*                                                                         *)
(* Python values are tagged records: None, Str, IntVal, Bool, List, Dict  *)
(* (a Dict keeps its items in insertion order, as Python's dict does).    *)
(* An exception that leaves a call is the value Raise(exc, msg).          *)
(***************************************************************************)
EXTENDS Integers, Sequences, FiniteSets, TLC

VARIABLES
    raw,          \* the raw mapping handed to the Schema constructor
    root,         \* None before construction; then the root Schema, or the SpecError raised
    _model_type,  \* the _model_type slot of every Schema node, by the node's path
    next_id,      \* the identity the next object created by type(...) receives
    last,         \* the last call made from outside: [op, path, arg, ret]
    seen,         \* by node path, the identities of the types the node has reported so far
    pc,           \* threads: the position of each thread inside get_type
    target,       \* threads: the path of the node each thread calls get_type on
    tmp,          \* threads: the class a thread created at line 79 and has not stored yet
    ret,          \* threads: what get_type returned to each thread
    stores        \* threads: by node path, how many times _model_type was assigned

vars == <<raw, root, _model_type, next_id, last, seen, pc, target, tmp, ret, stores>>

seqVars == <<last, seen>>
threadVars == <<pc, target, tmp, ret, stores>>

----------------------------------------------------------------------------
(* Bounds of the model. *)

\* The longest list an input holds for an array-typed field.
MaxLen == 2

\* The number of threads that share one Schema graph.
NumThreads == 2

----------------------------------------------------------------------------
(* Python values. *)

None == [kind |-> "None"]
Str(s) == [kind |-> "str", v |-> s]
IntVal(n) == [kind |-> "int", v |-> n]
Bool(b) == [kind |-> "bool", v |-> b]
List(elems) == [kind |-> "list", elems |-> elems]
Dict(items) == [kind |-> "dict", items |-> items]
Raise(exc, msg) == [kind |-> "raise", exc |-> exc, msg |-> msg]

IsRaise(v) == v.kind = "raise"

\* dict.keys(), in insertion order
Keys(d) == [i \in 1..Len(d.items) |-> d.items[i][1]]

\* k in d
HasKey(d, k) == \E i \in 1..Len(d.items) : d.items[i][1] = k

\* d[k], for a key d holds
GetItem(d, k) == d.items[CHOOSE i \in 1..Len(d.items) : d.items[i][1] = k][2]

\* d.get(k, None)
DictGet(d, k) == IF HasKey(d, k) THEN GetItem(d, k) ELSE None

\* the set of a sequence's elements
Range(s) == {s[i] : i \in 1..Len(s)}

----------------------------------------------------------------------------
(* ObjectBase, which Schema extends. *)

\* '.'.join(path)
RECURSIVE Join(_)
Join(path) ==
    IF Len(path) = 0 THEN ""
    ELSE IF Len(path) = 1 THEN path[1]
    ELSE path[1] \o "." \o Join(Tail(path))

get_path(self) == Join(self.path)

\* isinstance(v, t) for the builtin types _parse_data names
IsInstance(v, t) ==
    CASE t = "str" -> v.kind = "str"
      [] t = "int" -> v.kind = "int"
      [] t = "list" -> v.kind = "list"
      [] t = "bool" -> v.kind = "bool"
      [] t = "dict" -> v.kind = "dict"
      [] OTHER -> FALSE

----------------------------------------------------------------------------
(* Schema. *)

\* Schema.__slots__
SLOTS ==
    {"title", "multipleOf", "maximum", "exclusiveMaximum", "minimum",
     "exclusiveMinimum", "maxLength", "minLength", "pattern", "maxItems",
     "minItems", "uniqueItems", "maxProperties", "minProperties",
     "required", "enum", "type", "allOf", "oneOf", "anyOf", "not", "items",
     "properties", "additionalProperties", "description", "format",
     "default", "nullable", "discriminator", "readOnly", "writeOnly",
     "xml", "externalDocs", "example", "deprecated", "_model_type"}

\* The assignments of _parse_data in the order the code makes them: the slot
\* assigned, the key handed to _get, the accepted types, and is_map.
ParseFields ==
    << <<"title", "title", <<"str">>, FALSE>>,
       <<"maximum", "maximum", <<"int">>, FALSE>>,
       <<"minimum", "minimum", <<"int">>, FALSE>>,
       <<"maxLength", "maxLength", <<"int">>, FALSE>>,
       <<"minLength", "minLength", <<"int">>, FALSE>>,
       <<"pattern", "pattern", <<"str">>, FALSE>>,
       <<"maxItems", "maxItems", <<"int">>, FALSE>>,
       <<"minItems", "minItmes", <<"int">>, FALSE>>,
       <<"required", "required", <<"list">>, FALSE>>,
       <<"enum", "enum", <<"list">>, FALSE>>,
       <<"type", "type", <<"str">>, FALSE>>,
       <<"allOf", "allOf", <<"list">>, FALSE>>,
       <<"oneOf", "oneOf", <<"list">>, FALSE>>,
       <<"anyOf", "anyOf", <<"list">>, FALSE>>,
       <<"items", "items", <<"Schema", "Reference">>, FALSE>>,
       <<"properties", "properties", <<"Schema", "Reference">>, TRUE>>,
       <<"additionalProperties", "additionalProperties", <<"bool", "dict">>, FALSE>>,
       <<"description", "description", <<"str">>, FALSE>>,
       <<"format", "format", <<"str">>, FALSE>>,
       <<"default", "default", <<"str">>, FALSE>>,
       <<"nullable", "nullable", <<"bool">>, FALSE>>,
       <<"discriminator", "discriminator", <<"dict">>, FALSE>>,
       <<"readOnly", "readOnly", <<"bool">>, FALSE>>,
       <<"writeOnly", "writeOnly", <<"bool">>, FALSE>>,
       <<"xml", "xml", <<"dict">>, FALSE>>,
       <<"externalDocs", "externalDocs", <<"dict">>, FALSE>>,
       <<"deprecated", "deprecated", <<"bool">>, FALSE>> >>

RECURSIVE Schema(_, _)
RECURSIVE ParseMap(_, _, _)
RECURSIVE _get(_, _, _, _, _)
RECURSIVE ParseFrom(_, _, _)
RECURSIVE _parse_data(_, _)

\* Map(path, raw, ['Schema', 'Reference']): every value of the mapping parsed
\* as a Schema at path + [key], in the mapping's order; the first error leaves.
ParseMap(path, items, i) ==
    IF i > Len(items) THEN Dict(<<>>)
    ELSE LET k == items[i][1]
             child == IF items[i][2].kind = "dict"
                      THEN Schema(Append(path, k), items[i][2])
                      ELSE Raise("SpecError", Join(Append(path, k)))
         IN  IF IsRaise(child) THEN child
             ELSE LET rest == ParseMap(path, items, i + 1)
                  IN  IF IsRaise(rest) THEN rest
                      ELSE Dict(<<<<k, child>>>> \o rest.items)

\* ObjectBase._get(field, object_types, is_map): None when the key is absent,
\* the value when it has one of the accepted types (a nested mapping parsed as
\* a Schema at path + [field]), and a SpecError naming the path otherwise.
_get(self, raw_element, field, object_types, is_map) ==
    LET v == DictGet(raw_element, field)
        here == Append(self.path, field)
    IN  IF v = None THEN None
        ELSE IF is_map
        THEN IF v.kind = "dict" THEN ParseMap(here, v.items, 1)
             ELSE Raise("SpecError", Join(here))
        ELSE IF "Schema" \in Range(object_types)
        THEN IF v.kind = "dict" THEN Schema(here, v)
             ELSE Raise("SpecError", Join(here))
        ELSE IF \E i \in 1..Len(object_types) : IsInstance(v, object_types[i])
        THEN v
        ELSE Raise("SpecError", Join(here))

\* lines 24-58: every slot ParseFields names assigned what _get returns for
\* its key, in the order of ParseFields; the first error leaves
ParseFrom(self, raw_element, i) ==
    LET got == [j \in i..Len(ParseFields) |->
                  _get(self, raw_element, ParseFields[j][2], ParseFields[j][3],
                       ParseFields[j][4])]
        bad == {j \in DOMAIN got : IsRaise(got[j])}
        row(s) == CHOOSE j \in DOMAIN got : ParseFields[j][1] = s
    IN  IF bad # {} THEN got[CHOOSE j \in bad : \A l \in bad : j <= l]
        ELSE [s \in DOMAIN self |->
                IF \E j \in DOMAIN got : ParseFields[j][1] = s
                THEN got[row(s)] ELSE self[s]]

\* _parse_data without the check of lines 60-62
_parse_data_unchecked(self, raw_element) == ParseFrom(self, raw_element, 1)

\* Schema._parse_data
_parse_data(self, raw_element) ==
    LET parsed == ParseFrom(self, raw_element, 1)
    IN  IF IsRaise(parsed) THEN parsed
        ELSE IF parsed.type = Str("array") /\ parsed.items = None
        THEN Raise("SpecError",
                   get_path(parsed) \o ": items is required when type is \"array\"")
        ELSE parsed

\* Schema(path, raw_element): ObjectBase.__init__ sets every slot to None and
\* calls _parse_data. The _model_type slot lives in the variable _model_type.
Schema(path, raw_element) ==
    _parse_data([kind |-> "Schema", path |-> path]
                    @@ [s \in SLOTS \ {"_model_type"} |-> None],
                raw_element)

\* every Schema node of the graph under (and including) self
RECURSIVE Nodes(_)
Nodes(self) ==
    {self}
    \cup (IF self.items = None THEN {} ELSE Nodes(self.items))
    \cup (IF self.properties = None THEN {}
          ELSE UNION {Nodes(self.properties.items[i][2]) :
                        i \in 1..Len(self.properties.items)})

\* what type(name, (Model,), {'__slots__': keys}) creates: a new class object,
\* told from every other by its identity
NewType(name, slots, id) == [kind |-> "type", name |-> name, slots |-> slots, id |-> id]

\* Schema.get_type, on the store st = [mt |-> the _model_type slots, next |->
\* the next identity]: returns [ret |-> the type or the exception, st |-> the store]
get_type(self, st) ==
    IF st.mt[self.path] = None
    THEN IF self.properties = None
         THEN [ret |-> Raise("AttributeError",
                             "'NoneType' object has no attribute 'keys'"),
               st |-> st]
         ELSE LET t == NewType(self.path[Len(self.path)],
                               Keys(self.properties), st.next)
                  st1 == [mt |-> [st.mt EXCEPT ![self.path] = t],
                          next |-> st.next + 1]
              IN  [ret |-> st1.mt[self.path], st |-> st1]
    ELSE [ret |-> st.mt[self.path], st |-> st]

----------------------------------------------------------------------------
(* Model. *)

\* a slot no value was assigned to: reading it raises AttributeError
Unset == [kind |-> "unset"]

\* the object type.__call__ hands to Model.__init__: the subclass's slots and
\* the two slots of Model itself, none assigned yet
NewObject(cls) ==
    [kind |-> "Model", cls |-> cls, _raw_data |-> Unset, _schema |-> Unset,
     attrs |-> [s \in Range(cls.slots) |-> Unset]]

\* setattr(self, k, v): k must be one of the object's slots
SetAttr(self, k, v) == [self EXCEPT !.attrs[k] = v]

\* lines 121-123 left out
InitSlotsSkipped(self) == self

\* lines 121-123: every slot of the class initialised to None
InitSlots(self) == [self EXCEPT !.attrs = [s \in DOMAIN self.attrs |-> None]]

\* line 95: the schemas model() hands their data back for
IsSimple(self) ==
    self.properties = None /\ self.type \in {Str("string"), Str("number")}

\* line 138 with the value forgotten
ScalarValueDropped(prop, v) == None

\* line 138: the value a field of neither array nor object type receives
ScalarValue(prop, v) == v

\* line 131: item_schema = prop.items
ItemSchema(prop) == prop.items

\* line 133 with the type name misspelt
IsObjectTypeMisspelt(prop) == prop.type = Str("Object")

\* line 133: elif prop.type == 'object'
IsObjectType(prop) == prop.type = Str("object")

\* line 132 with each result put before the ones already collected
GatherReversed(head, rest) == rest \o <<head>>

\* line 132: the list comprehension collects the results in the order of v
Gather(head, rest) == <<head>> \o rest

RECURSIVE model(_, _, _)
RECURSIVE ModelEach(_, _, _, _)
RECURSIVE Collect(_, _, _, _, _)
RECURSIVE Model__init__(_, _, _, _)

\* line 132: [item_schema.model(c) for c in v], from element i on; the first
\* exception leaves
ModelEach(item_schema, elems, i, st) ==
    IF i > Len(elems) THEN [ret |-> List(<<>>), st |-> st]
    ELSE LET r == model(item_schema, elems[i], st)
         IN  IF IsRaise(r.ret) THEN r
             ELSE LET rest == ModelEach(item_schema, elems, i + 1, r.st)
                  IN  IF IsRaise(rest.ret) THEN rest
                      ELSE [ret |-> List(Gather(r.ret, rest.ret.elems)),
                            st |-> rest.st]

\* lines 126-138: the loop over data.items(), from item i on
Collect(self, items, i, schema, st) ==
    IF i > Len(items) THEN [ret |-> self, st |-> st]
    ELSE LET k == items[i][1]
             v == items[i][2]
         IN  IF ~HasKey(schema.properties, k)
             THEN [ret |-> Raise("KeyError", k), st |-> st]
             ELSE LET prop == GetItem(schema.properties, k)
                  IN  IF prop.type = Str("array")
                      THEN LET r == ModelEach(ItemSchema(prop), v.elems, 1, st)
                           IN  IF IsRaise(r.ret) THEN r
                               ELSE Collect(SetAttr(self, k, r.ret), items,
                                            i + 1, schema, r.st)
                      ELSE IF IsObjectType(prop)
                      THEN LET r == model(prop, v, st)
                           IN  IF IsRaise(r.ret) THEN r
                               ELSE Collect(SetAttr(self, k, r.ret), items,
                                            i + 1, schema, r.st)
                      ELSE Collect(SetAttr(self, k, ScalarValue(prop, v)),
                                   items, i + 1, schema, st)

\* Model.__init__(data, schema) on a new object of class cls
Model__init__(cls, data, schema, st) ==
    LET self == InitSlots([NewObject(cls) EXCEPT !._raw_data = data,
                                                 !._schema = schema.path])
    IN  IF data.kind # "dict"
        THEN [ret |-> Raise("AttributeError", "object has no attribute 'items'"),
              st |-> st]
        ELSE Collect(self, data.items, 1, schema, st)

\* Schema.model
model(self, data, st) ==
    IF IsSimple(self) THEN [ret |-> data, st |-> st]
    ELSE LET t == get_type(self, st)
         IN  IF IsRaise(t.ret) THEN t
             ELSE Model__init__(t.ret, data, self, t.st)

----------------------------------------------------------------------------
(* The inputs: raw schema mappings, and data for a parsed Schema. *)

\* the path of the root Schema in its document
RootPath == <<"Example">>

Typed(t) == <<"type", Str(t)>>
StringDoc == Dict(<<Typed("string")>>)
IntegerDoc == Dict(<<Typed("integer")>>)
Obj(props) == Dict(<<Typed("object"), <<"properties", Dict(props)>>>>)
Arr(items) == Dict(<<Typed("array"), <<"items", items>>>>)

\* {"type": "object", "properties": {"name": {"type": "string"}}}
NameObj == Obj(<<<<"name", StringDoc>>>>)

\* mappings without items or properties: no type, and each leaf type
LeafDocs ==
    {Dict(<<>>)}
    \cup {Dict(<<Typed(t)>>) : t \in {"string", "number", "integer", "boolean"}}

\* a value of the type a key expects, and one of a type it does not accept
Sample(t) ==
    CASE t = "str" -> Str("a")
      [] t = "int" -> IntVal(2)
      [] t = "list" -> List(<<Str("a")>>)
      [] t = "bool" -> Bool(TRUE)
      [] t = "dict" -> Dict(<<>>)
WrongSample(t) == IF t = "str" THEN IntVal(2) ELSE Str("a")

\* a string schema with one more key: each constraint key the grammar
\* recognises (under its own name) with a sample value, and an unrecognised key
KeyDocs ==
    {Dict(<<Typed("string"), <<ParseFields[i][1], v>>>>) :
        i \in {j \in 1..Len(ParseFields) :
                 ParseFields[j][1] \notin {"type", "items", "properties"}},
        v \in {Sample("str"), Sample("int"), Sample("bool")}}
    \cup {Dict(<<Typed("string"), <<ParseFields[i][1], Sample(ParseFields[i][3][1])>>>>) :
            i \in {j \in 1..Len(ParseFields) :
                     ParseFields[j][1] \notin {"type", "items", "properties"}}}
    \cup {Dict(<<Typed("string"), <<"x-unknown", Str("a")>>>>)}

\* array schemas: without items, and with each kind of item schema
ArrayDocs ==
    {Dict(<<Typed("array")>>)}
    \cup {Arr(i) : i \in {StringDoc, IntegerDoc, NameObj}}
    \cup {Dict(<<Typed("array"), <<"items", StringDoc>>,
                 <<"minItems", IntVal(1)>>, <<"maxItems", IntVal(2)>>>>)}

\* object schemas: without properties, with properties, nested, and a mapping
\* that declares properties and no type
ObjectDocs ==
    {Dict(<<Typed("object")>>), NameObj, Obj(<<<<"tags", NameObj>>>>),
     Dict(<<<<"properties", Dict(<<<<"name", StringDoc>>>>)>>>>)}

\* the schemas a field is declared with
FieldDocs == {Dict(<<>>), StringDoc, IntegerDoc} \cup ArrayDocs \cup ObjectDocs

RawDocs ==
    LeafDocs \cup KeyDocs \cup ArrayDocs \cup ObjectDocs
    \cup {Obj(<<<<"tags", c>>>>) : c \in FieldDocs}
    \cup {Obj(<<<<"name", StringDoc>>, <<"tags", c>>>>) : c \in FieldDocs}

\* the sequences over S of length at most n
SeqsUpTo(S, n) == UNION {[1..m -> S] : m \in 0..n}

RECURSIVE DataFor(_)
RECURSIVE ItemsOver(_, _)

\* the item sequences of the dicts that give each of props[i..] a conforming
\* value or leave it out
ItemsOver(props, i) ==
    IF i > Len(props) THEN {<<>>}
    ELSE LET rest == ItemsOver(props, i + 1)
         IN  rest \cup {<<<<props[i][1], v>>>> \o r :
                          v \in DataFor(props[i][2]), r \in rest}

\* data that matches schema self ("Should match this schema", line 89)
DataFor(self) ==
    IF self.properties # None
    THEN {Dict(it) : it \in ItemsOver(self.properties.items, 1)}
    ELSE IF self.type = Str("array")
    THEN {List(e) : e \in SeqsUpTo(DataFor(self.items), MaxLen)}
    ELSE IF self.type = Str("object")
    THEN {Dict(<<>>), Dict(<<<<"name", Str("a")>>>>)}
    ELSE IF self.type = Str("integer")
    THEN {IntVal(1), IntVal(2)}
    ELSE {Str("a"), Str("b")}

\* {"name": n, "tags": ["a", "b"]}
ScenarioData(n) ==
    Dict(<<<<"name", Str(n)>>, <<"tags", List(<<Str("a"), Str("b")>>)>>>>)

\* the data handed to model(): data that matches the schema, such a mapping
\* with one more field that the schema does not declare, and the mapping
\* {"name": "x", "tags": ["a", "b"]} where it matches
Inputs(self) ==
    DataFor(self)
    \cup {Dict(d.items \o <<<<"extra", Str("a")>>>>) :
            d \in {x \in DataFor(self) : x.kind = "dict"}}
    \cup (IF ScenarioData("a") \in DataFor(self) THEN {ScenarioData("x")} ELSE {})

----------------------------------------------------------------------------
(* The state machine of one caller. *)

Threads == 1..NumThreads

\* the store the operators above work on: the slots and the next identity
Heap == [mt |-> _model_type, next |-> next_id]

\* the identity a call reported: the type's, or the type of the instance
Reported(v) ==
    IF v.kind = "type" THEN {v.id}
    ELSE IF v.kind = "Model" THEN {v.cls.id}
    ELSE {}

\* no call made yet
NoCall == [op |-> "none", path |-> <<>>, arg |-> None, ret |-> None]

Init ==
    /\ raw \in RawDocs
    /\ root = None
    /\ _model_type = <<>>
    /\ next_id = 1
    /\ last = NoCall
    /\ seen = <<>>
    /\ pc = [t \in Threads |-> "idle"]
    /\ target = [t \in Threads |-> <<>>]
    /\ tmp = [t \in Threads |-> None]
    /\ ret = [t \in Threads |-> None]
    /\ stores = <<>>

\* root = Schema(RootPath, raw): the document is parsed; on success every
\* node's _model_type is None (ObjectBase.__init__)
Construct ==
    /\ root = None
    /\ root' = Schema(RootPath, raw)
    /\ IF IsRaise(root')
       THEN UNCHANGED <<_model_type, seen>>
       ELSE /\ _model_type' = [p \in {n.path : n \in Nodes(root')} |-> None]
            /\ seen' = [p \in {n.path : n \in Nodes(root')} |-> {}]
    /\ last' = [op |-> "Schema", path |-> RootPath, arg |-> raw, ret |-> root']
    /\ UNCHANGED <<raw, next_id>>
    /\ UNCHANGED threadVars

\* node.get_type() for a node of the graph
CallGetType ==
    /\ root.kind = "Schema"
    /\ \E self \in Nodes(root) :
         LET r == get_type(self, Heap)
         IN  /\ _model_type' = r.st.mt
             /\ next_id' = r.st.next
             /\ last' = [op |-> "get_type", path |-> self.path, arg |-> None,
                         ret |-> r.ret]
             /\ seen' = [seen EXCEPT ![self.path] = @ \cup Reported(r.ret)]
    /\ UNCHANGED <<raw, root>>
    /\ UNCHANGED threadVars

\* root.model(data) for an input of the root, which ranges over every schema
\* a field is declared with
CallModel ==
    /\ root.kind = "Schema"
    /\ \E data \in Inputs(root) :
         LET r == model(root, data, Heap)
         IN  /\ _model_type' = r.st.mt
             /\ next_id' = r.st.next
             /\ last' = [op |-> "model", path |-> root.path, arg |-> data,
                         ret |-> r.ret]
             /\ seen' = [seen EXCEPT ![root.path] = @ \cup Reported(r.ret)]
    /\ UNCHANGED <<raw, root>>
    /\ UNCHANGED threadVars

Next == Construct \/ CallGetType \/ CallModel

Spec == Init /\ [][Next]_vars

----------------------------------------------------------------------------
(* Threads that share one parsed Schema graph. Each thread calls get_type   *)
(* once on a node of the graph (model() obtains its class by the same call, *)
(* line 99). A thread switch may fall between any two of the steps below:   *)
(* the test of line 77, the creation of the class (the right-hand side of   *)
(* line 79), the assignment of line 79 and the read of line 83.             *)

\* the node of the graph with path p
NodeAt(p) == CHOOSE n \in Nodes(root) : n.path = p

InitThreads ==
    /\ raw \in {d \in RawDocs : ~IsRaise(Schema(RootPath, d))}
    /\ root = Schema(RootPath, raw)
    /\ _model_type = [p \in {n.path : n \in Nodes(root)} |-> None]
    /\ next_id = 1
    /\ last = NoCall
    /\ seen = [p \in {n.path : n \in Nodes(root)} |-> {}]
    /\ pc = [t \in Threads |-> "idle"]
    /\ target = [t \in Threads |-> <<>>]
    /\ tmp = [t \in Threads |-> None]
    /\ ret = [t \in Threads |-> None]
    /\ stores = [p \in {n.path : n \in Nodes(root)} |-> 0]

\* thread t enters get_type on a node
Enter(t) ==
    /\ pc[t] = "idle"
    /\ \E self \in Nodes(root) : target' = [target EXCEPT ![t] = self.path]
    /\ pc' = [pc EXCEPT ![t] = "test"]
    /\ UNCHANGED <<raw, root, _model_type, next_id, tmp, ret, stores>>
    /\ UNCHANGED seqVars

\* line 77: if self._model_type is None
Test(t) ==
    /\ pc[t] = "test"
    /\ pc' = [pc EXCEPT ![t] = IF _model_type[target[t]] = None
                               THEN "create" ELSE "return"]
    /\ UNCHANGED <<raw, root, _model_type, next_id, target, tmp, ret, stores>>
    /\ UNCHANGED seqVars

\* lines 79-81, the right-hand side: self.properties.keys() and type(...)
Create(t) ==
    /\ pc[t] = "create"
    /\ LET self == NodeAt(target[t])
       IN  IF self.properties = None
           THEN /\ ret' = [ret EXCEPT ![t] =
                             Raise("AttributeError",
                                   "'NoneType' object has no attribute 'keys'")]
                /\ pc' = [pc EXCEPT ![t] = "done"]
                /\ UNCHANGED <<tmp, next_id>>
           ELSE /\ tmp' = [tmp EXCEPT ![t] =
                             NewType(self.path[Len(self.path)],
                                     Keys(self.properties), next_id)]
                /\ next_id' = next_id + 1
                /\ pc' = [pc EXCEPT ![t] = "store"]
                /\ UNCHANGED ret
    /\ UNCHANGED <<raw, root, _model_type, target, stores>>
    /\ UNCHANGED seqVars

\* line 79, the assignment: self._model_type = <the class created>
Assign(t) ==
    /\ pc[t] = "store"
    /\ _model_type' = [_model_type EXCEPT ![target[t]] = tmp[t]]
    /\ stores' = [stores EXCEPT ![target[t]] = @ + 1]
    /\ pc' = [pc EXCEPT ![t] = "return"]
    /\ UNCHANGED <<raw, root, next_id, target, tmp, ret>>
    /\ UNCHANGED seqVars

\* line 83: return self._model_type
Return(t) ==
    /\ pc[t] = "return"
    /\ ret' = [ret EXCEPT ![t] = _model_type[target[t]]]
    /\ pc' = [pc EXCEPT ![t] = "done"]
    /\ UNCHANGED <<raw, root, _model_type, next_id, target, tmp, stores>>
    /\ UNCHANGED seqVars

NextThreads ==
    \E t \in Threads : Enter(t) \/ Test(t) \/ Create(t) \/ Assign(t) \/ Return(t)

SpecThreads == InitThreads /\ [][NextThreads]_vars

----------------------------------------------------------------------------
(* Properties. *)

\* every mapping of a raw document with the path its Schema gets
RECURSIVE RawMappings(_, _)
RawMappings(path, doc) ==
    {[path |-> path, doc |-> doc]}
    \cup (IF HasKey(doc, "items") /\ GetItem(doc, "items").kind = "dict"
          THEN RawMappings(Append(path, "items"), GetItem(doc, "items"))
          ELSE {})
    \cup (IF HasKey(doc, "properties") /\ GetItem(doc, "properties").kind = "dict"
          THEN LET props == GetItem(doc, "properties").items
               IN  UNION {IF props[i][2].kind = "dict"
                          THEN RawMappings(path \o <<"properties", props[i][1]>>,
                                           props[i][2])
                          ELSE {} : i \in 1..Len(props)}
          ELSE {})

\* the paths of the raw mappings whose type is "array" and that have no items
BadArrays ==
    {m.path : m \in {x \in RawMappings(RootPath, raw) :
                       /\ DictGet(x.doc, "type") = Str("array")
                       /\ ~HasKey(x.doc, "items")}}

\* every Model inside a value: the value, its fields, the elements of a list
RECURSIVE AllModels(_)
AllModels(v) ==
    IF v.kind = "Model"
    THEN {v} \cup UNION {AllModels(v.attrs[k]) : k \in DOMAIN v.attrs}
    ELSE IF v.kind = "list"
    THEN UNION {AllModels(v.elems[i]) : i \in 1..Len(v.elems)}
    ELSE {}

\* the last call was model() and it returned a Model
ModelReturned == last.op = "model" /\ last.ret.kind = "Model"

\* the Models the last call of model() returned: the result and those inside it
ReturnedModels == IF ModelReturned THEN AllModels(last.ret) ELSE {}

\* C1: for every successfully parsed node, nodes without properties included,
\* get_type returns a type, every call of get_type and every instance model
\* returns report one and the same type identity for the node, and that
\* identity is the one the node has cached.
C1_OneTypePerNode ==
    root.kind = "Schema" =>
        /\ last.op = "get_type" => last.ret.kind = "type"
        /\ \A p \in DOMAIN seen :
             /\ Cardinality(seen[p]) <= 1
             /\ \A i \in seen[p] : _model_type[p].kind = "type" /\ _model_type[p].id = i

\* C2: in every interleaving of threads that call get_type on one node, the
\* node's _model_type is assigned at most once and all callers that were
\* returned a type were returned the same identity.
C2_SingleAssignment ==
    /\ \A p \in DOMAIN stores : stores[p] <= 1
    /\ \A t1, t2 \in Threads :
         (/\ pc[t1] = "done" /\ pc[t2] = "done"
          /\ target[t1] = target[t2]
          /\ ret[t1].kind = "type" /\ ret[t2].kind = "type")
         => ret[t1].id = ret[t2].id

\* C3: a raw mapping of type "array" without items makes the constructor raise
\* a SpecError whose message starts with that mapping's path, so get_type and
\* model are never reached with it; and in a parsed graph every node of type
\* "array" has items.
C3_ArrayNeedsItems ==
    /\ (root.kind # "None" /\ BadArrays # {}) =>
          /\ root.kind = "raise"
          /\ root.exc = "SpecError"
          /\ \E p \in BadArrays :
               root.msg = Join(p) \o ": items is required when type is \"array\""
          /\ last.op = "Schema"
    /\ root.kind = "Schema" =>
          \A n \in Nodes(root) : n.type = Str("array") => n.items # None

\* C3 witness: the constructor raised for an array nested in the document
C3_Witness ==
    /\ root.kind = "raise"
    /\ root.msg = "Example.properties.tags: items is required when type is \"array\""
    /\ last.op = "Schema"

\* C4: model(data) with a field the schema does not declare completes and
\* returns a Model whose fields are those model() gives for the data without
\* the undeclared fields.
C4_UndeclaredDropped ==
    (/\ last.op = "model"
     /\ root.properties # None /\ last.arg.kind = "dict"
     /\ \E k \in Range(Keys(last.arg)) : ~HasKey(root.properties, k))
    => /\ last.ret.kind = "Model"
       /\ LET declared(it) == HasKey(root.properties, it[1])
              clean == Dict(SelectSeq(last.arg.items, declared))
          IN  last.ret.attrs = model(root, clean, Heap).ret.attrs

\* C5: for a node without properties whose type is string, number, integer or
\* boolean, model(data) returns data itself and leaves _model_type unset.
C5_LeafPassThrough ==
    (/\ last.op = "model"
     /\ root.properties = None
     /\ root.type \in {Str("string"), Str("number"), Str("integer"), Str("boolean")})
    => /\ last.ret = last.arg
       /\ _model_type[root.path] = None

C7_NestedObjectIsModel ==
    \A m \in ReturnedModels :
      LET props == NodeAt(m._schema).properties
      IN  \A f \in Range(Keys(props)) :
            LET prop == GetItem(props, f)
            IN  (/\ prop.type = Str("object") /\ prop.properties # None
                 /\ HasKey(m._raw_data, f))
                => /\ m.attrs[f].kind = "Model"
                   /\ m.attrs[f].cls = _model_type[prop.path]
                   /\ m.attrs[f]._schema = prop.path
                   /\ m.attrs[f]._raw_data = GetItem(m._raw_data, f)
                   /\ m.attrs[f] \in ReturnedModels

\* C7 witness: an object inside an object inside the root, each a Model
C7_Witness ==
    /\ ModelReturned
    /\ raw = Obj(<<<<"tags", Obj(<<<<"tags", NameObj>>>>)>>>>)
    /\ HasKey(last.arg, "tags")
    /\ HasKey(GetItem(last.arg, "tags"), "tags")
    /\ last.ret.attrs["tags"].kind = "Model"
    /\ last.ret.attrs["tags"].attrs["tags"].kind = "Model"
    /\ last.ret.attrs["tags"].attrs["tags"].attrs["name"] = Str("b")

\* C8: in every Model returned, each field the schema declares is a slot that
\* holds a value: None when the input has no such field, and the materialised
\* value (neither unset nor None) when it has.
C8_DeclaredFieldsAddressable ==
    \A m \in ReturnedModels :
      LET props == NodeAt(m._schema).properties
      IN  \A f \in Range(Keys(props)) :
            /\ f \in DOMAIN m.attrs
            /\ m.attrs[f] # Unset
            /\ ~HasKey(m._raw_data, f) => m.attrs[f] = None
            /\ HasKey(m._raw_data, f) => m.attrs[f] # None

\* C8 witness: a Model with one declared field given and one absent
C8_Witness ==
    /\ ModelReturned
    /\ Range(Keys(root.properties)) = {"name", "tags"}
    /\ Range(Keys(last.arg)) = {"tags"}
    /\ last.ret.attrs["name"] = None
    /\ last.ret.attrs["tags"] # None

\* the properties of the root are all declared with a type other than array
\* and object, and the input of the last call has exactly those fields
ScalarRoundTripCase ==
    /\ ModelReturned
    /\ \A i \in 1..Len(root.properties.items) :
         root.properties.items[i][2].type \notin {Str("array"), Str("object")}
    /\ Range(Keys(last.arg)) = Range(Keys(root.properties))

\* C9: when every property is scalar-typed and the input has exactly the
\* declared fields, each field of the Model equals the input's value for it.
C9_ScalarRoundTrip ==
    ScalarRoundTripCase =>
        \A f \in Range(Keys(root.properties)) :
            last.ret.attrs[f] = GetItem(last.arg, f)

\* C9 witness: two scalar fields, both given, both read back
C9_Witness ==
    /\ ScalarRoundTripCase
    /\ Len(root.properties.items) = 2
    /\ last.ret.attrs["name"] = Str("b")
    /\ last.ret.attrs["tags"] = IntVal(2)

\* C10: after a successful parse every constraint slot the parser fills holds
\* the value the mapping has under the slot's own name when that value has an
\* accepted type, and None when the mapping has no such key; so minItems
\* holds the integer under "minItems".
C10_KeysUnderOwnName ==
    root.kind = "Schema" =>
        \A i \in 1..Len(ParseFields) :
            LET slot == ParseFields[i][1]
                types == ParseFields[i][3]
            IN  slot \notin {"items", "properties"} =>
                  /\ (/\ HasKey(raw, slot)
                      /\ \E j \in 1..Len(types) : IsInstance(GetItem(raw, slot), types[j]))
                     => root[slot] = GetItem(raw, slot)
                  /\ ~HasKey(raw, slot) => root[slot] = None

====
